---- MODULE Spec2Model ----
(***************************************************************************)
(* Model of SolarCalcOrgo (src/orgo_agent.py): the transcript extraction   *)
(* extract_solar_and_geo_data, the cost lookup get_electricity_cost, and   *)
(* the query calculate_solar_potential run by batch_calculate.             *)
(*                                                                         *)
(* Text.  messages_text is the lower-cased transcript.  It is modelled as  *)
(* a sequence of tokens separated by whitespace; a comma token is attached *)
(* to the token before it.  A token is a sequence of strings: a label or   *)
(* unit is a one-element sequence holding its text, a numeric token is the *)
(* sequence of its characters, a maximal run of [0-9.-].  The regular      *)
(* expressions of the source are evaluated on this text: the label part    *)
(* on tokens, the numeric groups character by character.                   *)
(*                                                                         *)
(* Numbers.  A float is an integer number of tenths (48.5 is 485); every   *)
(* numeric token of the model has at most one fractional digit.  None is   *)
(* the empty sequence and a present value v is <<v>>.                      *)
(***************************************************************************)
EXTENDS Integers, Sequences, FiniteSets, TLC

VARIABLES messages_text, solar_data, pc, raised, per_field_entered,
          electricity_costs, country_name, cost,
          load_error, loaded_costs, first_lookup,
          addresses_list, addr_i, results, detected, ret, query_log,
          report

vars == <<messages_text, solar_data, pc, raised, per_field_entered,
          electricity_costs, country_name, cost,
          load_error, loaded_costs, first_lookup,
          addresses_list, addr_i, results, detected, ret, query_log,
          report>>

\* The variables of a batch of queries.
batch_vars == <<addresses_list, addr_i, results, detected, ret, query_log>>

\* The cost table and the record of how it was loaded and first used.
table_vars == <<electricity_costs, load_error, loaded_costs, first_lookup>>

None == <<>>

Some(v) == <<v>>

\* Python truthiness of an optional float: None and 0.0 are both falsy.
Truthy(x) == x # None /\ x[1] # 0

\* The element of a one-element set.  In TheOne({e(x) : x \in {v}}) the
\* value v is computed once and named x in e.
TheOne(S) == CHOOSE x \in S : TRUE

Min(S) == TheOne({CHOOSE m \in T : \A n \in T : m <= n : T \in {S}})

Max(S) == TheOne({CHOOSE m \in T : \A n \in T : m >= n : T \in {S}})

(***************************************************************************)
(* Characters and float()                                                  *)
(***************************************************************************)
Digits == {"0", "1", "2", "3", "4", "5", "6", "7", "8", "9"}

NumChars == Digits \cup {".", "-"}

DigitVal(c) ==
  CASE c = "0" -> 0 [] c = "1" -> 1 [] c = "2" -> 2 [] c = "3" -> 3
    [] c = "4" -> 4 [] c = "5" -> 5 [] c = "6" -> 6 [] c = "7" -> 7
    [] c = "8" -> 8 [] c = "9" -> 9

AllDigits(s) == \A i \in 1..Len(s) : s[i] \in Digits

\* The number the first n characters of s, all digits, denote.
RECURSIVE IntValUpTo(_, _)
IntValUpTo(s, n) == IF n = 0 THEN 0
                    ELSE 10 * IntValUpTo(s, n - 1) + DigitVal(s[n])

IntVal(s) == IntValUpTo(s, Len(s))

DotsOf(s) == {i \in 1..Len(s) : s[i] = "."}

\* Unsigned decimal in tenths; s holds digits and at most one dot.
TenthsOf(s) ==
  IF DotsOf(s) = {} THEN 10 * IntVal(s)
  ELSE LET d == Min(DotsOf(s))
       IN 10 * IntVal(SubSeq(s, 1, d - 1))
          + (IF d < Len(s) THEN DigitVal(s[d + 1]) ELSE 0)

\* float(s) accepts [-]digits[.digits] with at least one digit.
FloatBody(s) ==
  /\ \A i \in 1..Len(s) : s[i] \in Digits \cup {"."}
  /\ Cardinality(DotsOf(s)) <= 1
  /\ \E i \in 1..Len(s) : s[i] \in Digits

\* float(): None stands for ValueError.
ParseFloat(s) ==
  IF s # <<>> /\ s[1] = "-"
  THEN IF FloatBody(Tail(s)) THEN Some(0 - TenthsOf(Tail(s))) ELSE None
  ELSE IF FloatBody(s) THEN Some(TenthsOf(s)) ELSE None

(***************************************************************************)
(* Bounds                                                                  *)
(***************************************************************************)
LatMax == 90

LonMax == 180

\* CoordsValid without the bound on the longitude.
CoordsValidLatOnly(lat, lon) ==
  0 - LatMax * 10 <= lat /\ lat <= LatMax * 10

\* -90 <= lat <= 90 and -180 <= lon <= 180
CoordsValid(lat, lon) ==
  /\ 0 - LatMax * 10 <= lat /\ lat <= LatMax * 10
  /\ 0 - LonMax * 10 <= lon /\ lon <= LonMax * 10

\* prod_value > 0, irrad_value > 0, value > 0
PositiveValid(v) == v > 0

(***************************************************************************)
(* Tokens                                                                  *)
(***************************************************************************)
ED == <<"extracted data:">>

CO == <<"coordinates:">>

SE == <<"selected:">>

LA == <<"lat:">>

LO == <<"lon:">>

YP == <<"yearly pv energy production [kwh]:">>

PB == <<"production [kwh]:">>

EP == <<"energy production:">>

PR == <<"production:">>

YI == <<"yearly in-plane irradiation [kwh/m²]:">>

IB == <<"irradiation [kwh/m²]:">>

IP == <<"in-plane irradiation:">>

IR == <<"irradiation:">>

KW == <<"kwh">>

KM == <<"kwh/m²">>

COMMA == <<",">>

IsNum(t) == t # <<>> /\ \A i \in 1..Len(t) : t[i] \in NumChars

(***************************************************************************)
(* Numeric groups of the regular expressions                               *)
(***************************************************************************)
\* [0-9]+\.?[0-9]* matching all of s
IsDec(s) ==
  /\ s # <<>>
  /\ s[1] \in Digits
  /\ \A i \in 1..Len(s) : s[i] \in Digits \cup {"."}
  /\ Cardinality(DotsOf(s)) <= 1

\* label\s*([0-9]+\.?[0-9]*): the greedy group at the start of token t
DecPrefix(t) ==
  LET ns == {n \in 1..Len(t) : IsDec(SubSeq(t, 1, n))}
  IN IF ns = {} THEN <<>> ELSE SubSeq(t, 1, Max(ns))

\* ([0-9]+\.?[0-9]*)\s*unit: the leftmost start in t whose group ends t
DecSuffix(t) ==
  LET ss == {s \in 1..Len(t) : IsDec(SubSeq(t, s, Len(t)))}
  IN IF ss = {} THEN <<>> ELSE SubSeq(t, Min(ss), Len(t))

\* [0-9]{1,2}\.[0-9]+ matching all of s
IsShortCoord(s) ==
  \E k \in {1, 2} :
    /\ Len(s) >= k + 2
    /\ AllDigits(SubSeq(s, 1, k))
    /\ s[k + 1] = "."
    /\ AllDigits(SubSeq(s, k + 2, Len(s)))

\* ([0-9]{1,2}\.[0-9]+),  the leftmost start in t whose group ends t
ShortCoordSuffix(t) ==
  LET ss == {s \in 1..Len(t) : IsShortCoord(SubSeq(t, s, Len(t)))}
  IN IF ss = {} THEN <<>> ELSE SubSeq(t, Min(ss), Len(t))

\* ([0-9.-]+\.[0-9]+) at the start of t: greedy run, then the last dot that
\* a digit follows, then the digits after it
DottedPrefix(t) ==
  LET ks == {k \in 1..Len(t) - 2 : t[k + 1] = "." /\ t[k + 2] \in Digits}
  IN IF ~IsNum(t) \/ ks = {} THEN <<>>
     ELSE LET k == Max(ks)
              m == Max({e \in k + 2..Len(t) : AllDigits(SubSeq(t, k + 2, e))})
          IN SubSeq(t, 1, m)

(***************************************************************************)
(* The structured block: re.search of the formatted pattern                *)
(***************************************************************************)
\* label:\s*([0-9.-]+),\s*([0-9.-]+) with the label ending token j
CoordShapeAt(text, j, labels) ==
  /\ j + 3 <= Len(text)
  /\ text[j] \in labels
  /\ IsNum(text[j + 1])
  /\ text[j + 2] = COMMA
  /\ IsNum(text[j + 3])

\* irradiation:\s*([0-9]+\.?[0-9]*)\s*kwh/m²
IrrShapeAt(text, l) ==
  /\ l + 2 <= Len(text)
  /\ text[l] \in {IR, IP}
  /\ IsDec(text[l + 1])
  /\ text[l + 2] = KM

\* production:\s*([0-9]+\.?[0-9]*)\s*kwh.*?  and the rest of the pattern
ProdShapeAt(text, k) ==
  /\ k + 2 <= Len(text)
  /\ text[k] \in {PR, EP}
  /\ IsDec(text[k + 1])
  /\ text[k + 2] \in {KW, KM}
  /\ \E l \in k + 3..Len(text) : IrrShapeAt(text, l)

\* coordinates: ... .*? and the rest of the pattern
BlockCoordAt(text, j) ==
  /\ CoordShapeAt(text, j, {CO})
  /\ \E k \in j + 4..Len(text) : ProdShapeAt(text, k)

\* re.search(...): None, or the four groups of the leftmost match, each .*?
\* taking the shortest span
formatted_match(text) ==
  LET is == {i \in 1..Len(text) :
               text[i] = ED /\ \E j \in i + 1..Len(text) : BlockCoordAt(text, j)}
  IN IF is = {} THEN None
     ELSE LET i == Min(is)
              j == Min({n \in i + 1..Len(text) : BlockCoordAt(text, n)})
              k == Min({n \in j + 4..Len(text) : ProdShapeAt(text, n)})
              l == Min({n \in k + 3..Len(text) : IrrShapeAt(text, n)})
          IN <<text[j + 1], text[j + 3], text[k + 1], text[l + 1]>>

(***************************************************************************)
(* re.findall of the per-field patterns, as the list of captured groups    *)
(***************************************************************************)
RECURSIVE LabelPairsFrom(_, _, _)
LabelPairsFrom(text, labels, p) ==
  IF p > Len(text) THEN <<>>
  ELSE IF CoordShapeAt(text, p, labels)
       THEN <<<<text[p + 1], text[p + 3]>>>> \o LabelPairsFrom(text, labels, p + 4)
       ELSE LabelPairsFrom(text, labels, p + 1)

\* lat:\s*([0-9.-]+).*?lon:\s*([0-9.-]+)   The pattern has no DOTALL flag:
\* the tokens of the text stand on one line.
RECURSIVE LatLonFrom(_, _)
LatLonFrom(text, p) ==
  IF p > Len(text) THEN <<>>
  ELSE LET ms == {m \in p + 2..Len(text) - 1 : text[m] = LO /\ IsNum(text[m + 1])}
       IN IF text[p] = LA /\ p + 1 <= Len(text) /\ IsNum(text[p + 1]) /\ ms # {}
          THEN <<<<text[p + 1], text[Min(ms) + 1]>>>> \o LatLonFrom(text, Min(ms) + 2)
          ELSE LatLonFrom(text, p + 1)

\* ([0-9]{1,2}\.[0-9]+),\s*([0-9.-]+\.[0-9]+)
RECURSIVE BarePairsFrom(_, _)
BarePairsFrom(text, p) ==
  IF p > Len(text) THEN <<>>
  ELSE IF /\ p + 2 <= Len(text)
          /\ ShortCoordSuffix(text[p]) # <<>>
          /\ text[p + 1] = COMMA
          /\ DottedPrefix(text[p + 2]) # <<>>
       THEN <<<<ShortCoordSuffix(text[p]), DottedPrefix(text[p + 2])>>>>
            \o BarePairsFrom(text, p + 3)
       ELSE BarePairsFrom(text, p + 1)

\* label\s*([0-9]+\.?[0-9]*)
RECURSIVE LabelValuesFrom(_, _, _)
LabelValuesFrom(text, labels, p) ==
  IF p >= Len(text) THEN <<>>
  ELSE IF text[p] \in labels /\ DecPrefix(text[p + 1]) # <<>>
       THEN <<DecPrefix(text[p + 1])>> \o LabelValuesFrom(text, labels, p + 2)
       ELSE LabelValuesFrom(text, labels, p + 1)

\* ([0-9]+\.?[0-9]*)\s*unit
RECURSIVE UnitValuesFrom(_, _, _)
UnitValuesFrom(text, units, p) ==
  IF p >= Len(text) THEN <<>>
  ELSE IF DecSuffix(text[p]) # <<>> /\ text[p + 1] \in units
       THEN <<DecSuffix(text[p])>> \o UnitValuesFrom(text, units, p + 2)
       ELSE UnitValuesFrom(text, units, p + 1)

NumCoordPatterns == 4

coord_patterns(text, n) ==
  CASE n = 1 -> LabelPairsFrom(text, {SE}, 1)
    [] n = 2 -> LabelPairsFrom(text, {CO}, 1)
    [] n = 3 -> LatLonFrom(text, 1)
    [] n = 4 -> BarePairsFrom(text, 1)

NumValuePatterns == 5

production_patterns(text, n) ==
  CASE n = 1 -> LabelValuesFrom(text, {YP}, 1)
    [] n = 2 -> LabelValuesFrom(text, {YP, PB}, 1)
    [] n = 3 -> LabelValuesFrom(text, {EP}, 1)
    [] n = 4 -> LabelValuesFrom(text, {PR, EP}, 1)
    [] n = 5 -> UnitValuesFrom(text, {KW, KM}, 1)

irradiation_patterns(text, n) ==
  CASE n = 1 -> LabelValuesFrom(text, {YI}, 1)
    [] n = 2 -> LabelValuesFrom(text, {YI, IB}, 1)
    [] n = 3 -> LabelValuesFrom(text, {IP}, 1)
    [] n = 4 -> UnitValuesFrom(text, {KM}, 1)
    [] n = 5 -> LabelValuesFrom(text, {IR, IP}, 1)

(***************************************************************************)
(* extract_solar_and_geo_data                                              *)
(***************************************************************************)
InitialSolarData ==
  [latitude |-> None, longitude |-> None, annual_production_kwh |-> None,
   irradiation_kwh_m2 |-> None, country |-> None,
   electricity_cost_usd_kwh |-> None, status |-> "extraction_attempted"]

\* The exception types the two kinds of handler of the function catch.
BlockHandler == {"ValueError", "IndexError"}

LoopHandler == {"ValueError"}

\* all([...]) over the four fields
AllFour(sd) ==
  /\ Truthy(sd.latitude) /\ Truthy(sd.longitude)
  /\ Truthy(sd.annual_production_kwh) /\ Truthy(sd.irradiation_kwh_m2)

\* BlockStage storing the latitude and the longitude each under its own
\* bound.
BlockStageIndividually(sd, text) ==
  TheOne({
    IF m = None THEN [sd |-> sd, returned |-> FALSE, exc |-> "none"]
    ELSE LET lat == ParseFloat(m[1])
             lon == ParseFloat(m[2])
             prod_value == ParseFloat(m[3])
             irrad_value == ParseFloat(m[4])
         IN IF None \in {lat, lon, prod_value, irrad_value}
            THEN [sd |-> sd, returned |-> FALSE, exc |-> "none"]
            ELSE LET sd0 == IF CoordsValid(lat[1], 0)
                            THEN [sd EXCEPT !.latitude = lat] ELSE sd
                     sd1 == IF CoordsValid(0, lon[1])
                            THEN [sd0 EXCEPT !.longitude = lon] ELSE sd0
                     sd2 == IF PositiveValid(prod_value[1])
                            THEN [sd1 EXCEPT !.annual_production_kwh = prod_value]
                            ELSE sd1
                     sd3 == IF PositiveValid(irrad_value[1])
                            THEN [sd2 EXCEPT !.irradiation_kwh_m2 = irrad_value]
                            ELSE sd2
                 IN IF AllFour(sd3)
                    THEN [sd |-> [sd3 EXCEPT !.status = "completed"],
                          returned |-> TRUE, exc |-> "none"]
                    ELSE [sd |-> sd3, returned |-> FALSE, exc |-> "none"]
    : m \in {formatted_match(text)}})

\* The body of "if formatted_match: try: ..."; exc is the exception that the
\* float() calls raise, if any, before anything is assigned.
BlockStage(sd, text) ==
  TheOne({
    IF m = None THEN [sd |-> sd, returned |-> FALSE, exc |-> "none"]
    ELSE LET lat == ParseFloat(m[1])
             lon == ParseFloat(m[2])
             prod_value == ParseFloat(m[3])
             irrad_value == ParseFloat(m[4])
         IN IF None \in {lat, lon, prod_value, irrad_value}
            THEN [sd |-> sd, returned |-> FALSE,
                  exc |-> IF "ValueError" \in BlockHandler
                          THEN "none" ELSE "ValueError"]
            ELSE LET sd1 == IF CoordsValid(lat[1], lon[1])
                            THEN [sd EXCEPT !.latitude = lat, !.longitude = lon]
                            ELSE sd
                     sd2 == IF PositiveValid(prod_value[1])
                            THEN [sd1 EXCEPT !.annual_production_kwh = prod_value]
                            ELSE sd1
                     sd3 == IF PositiveValid(irrad_value[1])
                            THEN [sd2 EXCEPT !.irradiation_kwh_m2 = irrad_value]
                            ELSE sd2
                 IN IF AllFour(sd3)
                    THEN [sd |-> [sd3 EXCEPT !.status = "completed"],
                          returned |-> TRUE, exc |-> "none"]
                    ELSE [sd |-> sd3, returned |-> FALSE, exc |-> "none"]
    : m \in {formatted_match(text)}})

\* for match in matches: the first match whose floats parse and pass the
\* bounds; a ValueError is caught and the loop continues.  0 when none.
FirstValidPair(matches) ==
  LET ok == {i \in 1..Len(matches) :
               /\ ParseFloat(matches[i][1]) # None
               /\ ParseFloat(matches[i][2]) # None
               /\ CoordsValid(ParseFloat(matches[i][1])[1],
                              ParseFloat(matches[i][2])[1])}
  IN IF ok = {} THEN 0 ELSE Min(ok)

FirstValidValue(matches) ==
  LET ok == {i \in 1..Len(matches) :
               /\ ParseFloat(matches[i]) # None
               /\ PositiveValid(ParseFloat(matches[i])[1])}
  IN IF ok = {} THEN 0 ELSE Min(ok)

\* A float() of a per-field loop raises at a match tried before the accepted
\* one (upto; 0 when none is accepted) and the loop's handler lets it out.
\* captures[i] is the sequence of the groups of match i.
LoopEscapes(captures, upto) ==
  /\ "ValueError" \notin LoopHandler
  /\ \E i \in 1..Len(captures) :
       /\ (upto = 0 \/ i < upto)
       /\ \E g \in 1..Len(captures[i]) : ParseFloat(captures[i][g]) = None

\* The matches of a pattern with one group, each as its sequence of groups.
ValueGroups(matches) == [i \in 1..Len(matches) |-> <<matches[i]>>]

\* for pattern in coord_patterns: ... if solar_data['latitude']: break
RECURSIVE CoordLoop(_, _, _)
CoordLoop(sd, text, n) ==
  IF n > NumCoordPatterns THEN [sd |-> sd, exc |-> "none"]
  ELSE TheOne({
         LET i == FirstValidPair(matches)
             sd1 == IF i = 0 THEN sd
                    ELSE [sd EXCEPT !.latitude = ParseFloat(matches[i][1]),
                                    !.longitude = ParseFloat(matches[i][2])]
         IN IF LoopEscapes(matches, i)
            THEN [sd |-> sd, exc |-> "ValueError"]
            ELSE IF Truthy(sd1.latitude) THEN [sd |-> sd1, exc |-> "none"]
            ELSE CoordLoop(sd1, text, n + 1)
         : matches \in {coord_patterns(text, n)}})

\* for pattern in production_patterns: ...
RECURSIVE ProductionLoop(_, _, _)
ProductionLoop(sd, text, n) ==
  IF n > NumValuePatterns THEN [sd |-> sd, exc |-> "none"]
  ELSE TheOne({
         LET i == FirstValidValue(matches)
             sd1 == IF i = 0 THEN sd
                    ELSE [sd EXCEPT !.annual_production_kwh = ParseFloat(matches[i])]
         IN IF LoopEscapes(ValueGroups(matches), i)
            THEN [sd |-> sd, exc |-> "ValueError"]
            ELSE IF Truthy(sd1.annual_production_kwh)
                 THEN [sd |-> sd1, exc |-> "none"]
            ELSE ProductionLoop(sd1, text, n + 1)
         : matches \in {production_patterns(text, n)}})

\* for pattern in irradiation_patterns: ...
RECURSIVE IrradiationLoop(_, _, _)
IrradiationLoop(sd, text, n) ==
  IF n > NumValuePatterns THEN [sd |-> sd, exc |-> "none"]
  ELSE TheOne({
         LET i == FirstValidValue(matches)
             sd1 == IF i = 0 THEN sd
                    ELSE [sd EXCEPT !.irradiation_kwh_m2 = ParseFloat(matches[i])]
         IN IF LoopEscapes(ValueGroups(matches), i)
            THEN [sd |-> sd, exc |-> "ValueError"]
            ELSE IF Truthy(sd1.irradiation_kwh_m2)
                 THEN [sd |-> sd1, exc |-> "none"]
            ELSE IrradiationLoop(sd1, text, n + 1)
         : matches \in {irradiation_patterns(text, n)}})

found_items(sd) ==
  (IF Truthy(sd.latitude) THEN 1 ELSE 0)
  + (IF Truthy(sd.longitude) THEN 1 ELSE 0)
  + (IF Truthy(sd.annual_production_kwh) THEN 1 ELSE 0)
  + (IF Truthy(sd.irradiation_kwh_m2) THEN 1 ELSE 0)

SetStatus(sd) ==
  [sd EXCEPT !.status = IF found_items(sd) = 4 THEN "completed"
                        ELSE IF found_items(sd) > 0 THEN "partial"
                        ELSE "failed"]

\* The per-field tier and the status: the three loops in turn, the first
\* exception ending the function.
PerFieldTier(sd, text) ==
  TheOne({
    IF c.exc # "none" THEN c
    ELSE TheOne({
      IF p.exc # "none" THEN p
      ELSE TheOne({
        IF r.exc # "none" THEN r
        ELSE [sd |-> SetStatus(r.sd), exc |-> "none"]
        : r \in {IrradiationLoop(p.sd, text, 1)}})
      : p \in {ProductionLoop(c.sd, text, 1)}})
    : c \in {CoordLoop(sd, text, 1)}})

\* The whole function: the record returned, whether the per-field tier ran,
\* and whether an exception left the function.
extract_solar_and_geo_data(text) ==
  TheOne({
    IF b.exc # "none"
    THEN [sd |-> b.sd, per_field |-> FALSE, raised |-> TRUE]
    ELSE IF b.returned
         THEN [sd |-> b.sd, per_field |-> FALSE, raised |-> FALSE]
         ELSE TheOne({[sd |-> f.sd, per_field |-> TRUE, raised |-> f.exc # "none"]
                      : f \in {PerFieldTier(b.sd, text)}})
    : b \in {BlockStage(InitialSolarData, text)}})

(***************************************************************************)
(* Transcripts: up to MaxPhrases phrases, each a label with its value(s),  *)
(* a value with its unit, a bare pair, or a whole terminal block.          *)
(***************************************************************************)
MaxPhrases == 2

CoordPairs ==
  { <<<<"4", "8", ".", "5">>, <<"2", ".", "5">>>>,
    <<<<"0", ".", "0">>, <<"2", ".", "5">>>>,
    <<<<"0", ".", "0">>, <<"0", ".", "0">>>>,
    <<<<"2", "0", "0", ".", "5">>, <<"2", ".", "5">>>>,
    <<<<"1", ".", "2", ".", "3">>, <<"2", ".", "5">>>>,
    <<<<"-", "5">>, <<"2", "0", "0">>>>,
    <<<<"-">>, <<"2", ".", "5">>>> }

LabelledPairs ==
  { <<<<"4", "8", ".", "5">>, <<"2", ".", "5">>>>,
    <<<<"2", "0", "0", ".", "5">>, <<"2", ".", "5">>>> }

LatLonPairs ==
  { <<<<"4", "8", ".", "5">>, <<"2", ".", "5">>>>,
    <<<<"9", "5">>, <<"1", "0">>>> }

BarePairs ==
  { <<<<"1", "2", ".", "5">>, <<"7", ".", "5">>>>,
    <<<<"2", "0", "0", ".", "5">>, <<"2", ".", "5">>>>,
    <<<<"1", ".", "2", ".", "3">>, <<"5", ".", "5">>>> }

BlockPairs ==
  { <<<<"4", "8", ".", "5">>, <<"2", ".", "5">>>>,
    <<<<"0", ".", "0">>, <<"2", ".", "5">>>>,
    <<<<"9", "5">>, <<"1", "0">>>>,
    <<<<"1", ".", "2", ".", "3">>, <<"2", ".", "5">>>> }

V4847 == <<"4", "8", "4", "7">>

V1696 == <<"1", "6", "9", "6", ".", "9">>

V1367 == <<"1", "3", "6", "7">>

VZero == <<"0">>

VMinus5 == <<"-", "5">>

BlockPhrase(c, p, i) == <<ED, CO, c[1], COMMA, c[2], PR, p, KW, IR, i, KM>>

Phrases ==
  {<<SE, c[1], COMMA, c[2]>> : c \in CoordPairs}
  \cup {<<CO, c[1], COMMA, c[2]>> : c \in LabelledPairs}
  \cup {<<LA, c[1], LO, c[2]>> : c \in LatLonPairs}
  \cup {<<c[1], COMMA, c[2]>> : c \in BarePairs}
  \cup {<<YP, V1696>>, <<YP, VZero>>, <<PB, V4847>>, <<EP, V4847>>,
        <<PR, V4847>>, <<PR, VMinus5>>, <<PR, VMinus5, KW>>, <<V4847, KW>>,
        <<VMinus5, KW>>}
  \cup {<<YI, V1367>>, <<YI, VZero>>, <<IB, V1367>>, <<IP, V1367>>,
        <<IR, V1367>>, <<V1367, KM>>}
  \cup {BlockPhrase(c, p, V1367) : c \in BlockPairs, p \in {V4847, VZero}}

RECURSIVE Flatten(_)
Flatten(ps) == IF ps = <<>> THEN <<>> ELSE Head(ps) \o Flatten(Tail(ps))

PhraseSeqs == UNION {[1..n -> Phrases] : n \in 0..MaxPhrases}

Transcripts == {Flatten(ps) : ps \in PhraseSeqs}

\* The value of cost before get_electricity_cost has been called.
NoLookup == [cost |-> None, entry |-> 0, phase |-> "not called"]

\* The first call of get_electricity_cost since start-up (made, its country
\* name and its result) and whether a later call has been made (again).
NoFirstLookup ==
  [made |-> FALSE, country |-> <<>>, result |-> NoLookup, again |-> FALSE]

\* The value of report before generate_enhanced_report has been called.
NoReport ==
  [kind |-> "not called", savings_per_year_usd |-> None,
   payback_years |-> None, missing_data |-> {}]

\* No batch is running.
IdleBatch ==
  /\ addresses_list = <<>>
  /\ addr_i = 0
  /\ results = <<>>
  /\ detected = None
  /\ ret = None
  /\ query_log = <<>>

(***************************************************************************)
(* Specification of the extraction                                         *)
(***************************************************************************)
InitExtract ==
  /\ messages_text \in Transcripts
  /\ solar_data = InitialSolarData
  /\ pc = "ready"
  /\ raised = FALSE
  /\ per_field_entered = FALSE
  /\ electricity_costs = <<>>
  /\ load_error = "none"
  /\ loaded_costs = <<>>
  /\ first_lookup = NoFirstLookup
  /\ country_name = <<>>
  /\ cost = NoLookup
  /\ IdleBatch
  /\ report = NoReport

Extract ==
  /\ pc = "ready"
  /\ \E r \in {extract_solar_and_geo_data(messages_text)} :
       /\ solar_data' = r.sd
       /\ per_field_entered' = r.per_field
       /\ raised' = r.raised
       /\ pc' = IF r.raised THEN "raised" ELSE "returned"
  /\ UNCHANGED <<messages_text, country_name, cost, table_vars, batch_vars>>
  /\ UNCHANGED report

NextExtract == Extract

SpecExtract == InitExtract /\ [][NextExtract]_vars

(***************************************************************************)
(* get_electricity_cost                                                    *)
(*                                                                         *)
(* A country name is the sequence of its characters.  An entry of the      *)
(* table is [country, c2024, c2022]; c2024 and c2022 are what entry.get    *)
(* returns for the 2024March and the 2022Sept key: None, or the figure.    *)
(***************************************************************************)
UpperAlpha ==
  <<"A", "B", "C", "D", "E", "F", "G", "H", "I", "J", "K", "L", "M", "N",
    "O", "P", "Q", "R", "S", "T", "U", "V", "W", "X", "Y", "Z", "É">>

LowerAlpha ==
  <<"a", "b", "c", "d", "e", "f", "g", "h", "i", "j", "k", "l", "m", "n",
    "o", "p", "q", "r", "s", "t", "u", "v", "w", "x", "y", "z", "é">>

\* str.lower() of one character; the characters outside the two alphabets
\* (the space) are left as they are.
LowerChar ==
  [c \in {UpperAlpha[k] : k \in 1..Len(UpperAlpha)}
          \cup {LowerAlpha[k] : k \in 1..Len(LowerAlpha)} \cup {" "} |->
     IF \E k \in 1..Len(UpperAlpha) : UpperAlpha[k] = c
     THEN LowerAlpha[CHOOSE k \in 1..Len(UpperAlpha) : UpperAlpha[k] = c]
     ELSE c]

\* str.lower()
Lower(s) == [i \in 1..Len(s) |-> LowerChar[s[i]]]

\* a in b, for strings
IsSubstring(a, b) ==
  \E i \in 0..Len(b) - Len(a) : SubSeq(b, i + 1, i + Len(a)) = a

\* SelectCost testing the 2024 figure for truth instead of "is not None".
SelectCostTruthy(entry) ==
  IF Truthy(entry.c2024) THEN entry.c2024 ELSE entry.c2022

\* cost_2024 if cost_2024 is not None else cost_2022
SelectCost(entry) == IF entry.c2024 # None THEN entry.c2024 ELSE entry.c2022

ExactMatch(entry, country) == Lower(entry.country) = Lower(country)

FuzzyMatch(entry, country) ==
  \/ IsSubstring(Lower(country), Lower(entry.country))
  \/ IsSubstring(Lower(entry.country), Lower(country))

\* The first entry of the table, in order, that matches in the given loop
\* and has a cost; 0 when the loop ends without returning.
FirstWithCost(table, country, phase) ==
  LET hits == {i \in 1..Len(table) :
                 /\ IF phase = "exact" THEN ExactMatch(table[i], country)
                    ELSE FuzzyMatch(table[i], country)
                 /\ SelectCost(table[i]) # None}
  IN IF hits = {} THEN 0 ELSE Min(hits)

\* The result, with the index of the entry it was taken from and the loop
\* that returned it.
get_electricity_cost(table, country) ==
  LET e == FirstWithCost(table, country, "exact")
      f == FirstWithCost(table, country, "fuzzy")
  IN IF table = <<>> THEN [cost |-> None, entry |-> 0, phase |-> "empty"]
     ELSE IF e # 0
          THEN [cost |-> SelectCost(table[e]), entry |-> e, phase |-> "exact"]
     ELSE IF f # 0
          THEN [cost |-> SelectCost(table[f]), entry |-> f, phase |-> "fuzzy"]
     ELSE [cost |-> None, entry |-> 0, phase |-> "none"]

(***************************************************************************)
(* Cost tables and queries                                                 *)
(***************************************************************************)
MaxEntries == 2

Niger ==
  <<"N", "i", "g", "e", "r">>

Nigeria ==
  <<"N", "i", "g", "e", "r", "i", "a">>

SenegalAccented ==
  <<"S", "é", "n", "é", "g", "a", "l">>

UnitedStatesOfAmerica ==
  <<"U", "n", "i", "t", "e", "d", " ", "S", "t", "a", "t", "e", "s", " ",
  "o", "f", " ", "A", "m", "e", "r", "i", "c", "a">>

Senegal ==
  <<"S", "e", "n", "e", "g", "a", "l">>

USA ==
  <<"U", "S", "A">>

NigeriaUpper ==
  <<"N", "I", "G", "E", "R", "I", "A">>

UnitedStates ==
  <<"U", "n", "i", "t", "e", "d", " ", "S", "t", "a", "t", "e", "s">>

TableCountries == {Niger, Nigeria, SenegalAccented, UnitedStatesOfAmerica}

Queries == {Niger, NigeriaUpper, Senegal, USA, UnitedStates}

\* The figures of an entry: none, both (the 2024 one 0 or not), 2022 only.
Figures ==
  { <<None, None>>, <<Some(0), Some(12)>>, <<Some(15), Some(12)>>,
    <<None, Some(12)>> }

Entries ==
  {[country |-> n, c2024 |-> f[1], c2022 |-> f[2]] :
     n \in TableCountries, f \in Figures}

Tables == UNION {[1..n -> Entries] : n \in 0..MaxEntries}

(***************************************************************************)
(* load_electricity_costs                                                  *)
(*                                                                         *)
(* The outcome of open() and json.load(): the data of the file, or the     *)
(* exception raised, FileNotFoundError or any other one.                   *)
(***************************************************************************)
LoadErrors == {"FileNotFoundError", "Exception"}

LoadOutcomes(tables) ==
  {[error |-> "none", data |-> t] : t \in tables}
  \cup {[error |-> e, data |-> <<>>] : e \in LoadErrors}

\* load_electricity_costs falling back, on an error other than a missing
\* file, to a built-in table instead of the empty one.
load_electricity_costs_builtin(outcome) ==
  IF outcome.error = "none" THEN outcome.data
  ELSE IF outcome.error = "FileNotFoundError" THEN <<>>
  ELSE <<[country |-> Nigeria, c2024 |-> None, c2022 |-> Some(12)]>>

\* return data, or [] from either handler
load_electricity_costs(outcome) ==
  IF outcome.error = "none" THEN outcome.data
  ELSE IF outcome.error = "FileNotFoundError" THEN <<>>
  ELSE <<>>

\* self.electricity_costs = self.load_electricity_costs() in __init__
LoadTable(tables) ==
  \E o \in LoadOutcomes(tables) :
    /\ electricity_costs = load_electricity_costs(o)
    /\ loaded_costs = electricity_costs
    /\ load_error = o.error
    /\ first_lookup = NoFirstLookup

(***************************************************************************)
(* Specification of the cost lookup                                        *)
(***************************************************************************)
InitCost ==
  /\ LoadTable(Tables)
  /\ IdleBatch
  /\ report = NoReport
  /\ country_name = <<>>
  /\ cost = NoLookup
  /\ messages_text = <<>>
  /\ solar_data = InitialSolarData
  /\ pc = "ready"
  /\ raised = FALSE
  /\ per_field_entered = FALSE

\* CallLookup removing from the table the entry that answered.
CallLookupConsuming(c) ==
  /\ country_name' = c
  /\ \E r \in {get_electricity_cost(electricity_costs, c)} :
       /\ cost' = r
       /\ first_lookup' =
            IF first_lookup.made THEN [first_lookup EXCEPT !.again = TRUE]
            ELSE [made |-> TRUE, country |-> c, result |-> r, again |-> FALSE]
       /\ electricity_costs' =
            IF r.entry = 0 THEN electricity_costs
            ELSE SubSeq(electricity_costs, 1, r.entry - 1)
                 \o SubSeq(electricity_costs, r.entry + 1, Len(electricity_costs))
  /\ UNCHANGED <<load_error, loaded_costs>>

\* A call get_electricity_cost(c): the table is only read.  first_lookup
\* keeps the first call and notes that another one followed.
CallLookup(c) ==
  /\ country_name' = c
  /\ \E r \in {get_electricity_cost(electricity_costs, c)} :
       /\ cost' = r
       /\ first_lookup' =
            IF first_lookup.made THEN [first_lookup EXCEPT !.again = TRUE]
            ELSE [made |-> TRUE, country |-> c, result |-> r, again |-> FALSE]
  /\ UNCHANGED <<electricity_costs, load_error, loaded_costs>>

Lookup(c) ==
  /\ pc \in {"ready", "returned"}
  /\ CallLookup(c)
  /\ pc' = "returned"
  /\ UNCHANGED <<messages_text, solar_data, raised, per_field_entered,
                 batch_vars>>
  /\ UNCHANGED report

NextCost == \E c \in Queries : Lookup(c)

SpecCost == InitCost /\ [][NextCost]_vars

(***************************************************************************)
(* get_country_from_coordinates                                            *)
(*                                                                         *)
(* The outcome of requests.get: a response with its status code and, for   *)
(* 200, the country its body gives ("" when the body has no address or no  *)
(* country), or an exception (timeout, connection error, a body that is    *)
(* not JSON).  A country is the sequence of its characters, "" is <<>>.    *)
(***************************************************************************)
HttpOk == 200

HttpError == 500

GeoCountries == {Nigeria, Senegal}

GeocodeOutcomes ==
  {[kind |-> "response", status |-> HttpOk, country |-> n] :
     n \in GeoCountries \cup {<<>>}}
  \cup {[kind |-> "response", status |-> HttpError, country |-> <<>>],
        [kind |-> "exception", status |-> 0, country |-> <<>>]}

\* get_country_from_coordinates answering an exception with a fixed country.
get_country_from_coordinates_default(outcome) ==
  IF outcome.kind = "exception" THEN Some(Nigeria)
  ELSE IF outcome.status = HttpOk THEN Some(outcome.country)
  ELSE None

\* The country string of a 200 response, None otherwise; the handler turns
\* every exception into None.
get_country_from_coordinates(outcome) ==
  IF outcome.kind = "exception" THEN None
  ELSE IF outcome.status = HttpOk THEN Some(outcome.country)
  ELSE None

\* How the outcome is named in the log of a query.
GeocodeKind(outcome) ==
  IF outcome.kind = "exception" THEN "exception"
  ELSE IF outcome.status # HttpOk THEN "status"
  ELSE IF outcome.country = <<>> THEN "no country"
  ELSE "country"

\* Python truthiness of an optional string: None and "" are both falsy.
StrTruthy(c) == c # None /\ c[1] # <<>>

(***************************************************************************)
(* calculate_solar_potential and batch_calculate                           *)
(*                                                                         *)
(* The upstream generator computer.prompt returns the messages of a        *)
(* session or raises.  query_log holds one entry for each query started:   *)
(* what the generator did, the record extract_solar_and_geo_data returned, *)
(* what the geocoder did, whether the report was saved, the collaborators  *)
(* called, in order, and whether an exception reached the caller; also the *)
(* address of the query and whether batch_calculate slept after it.        *)
(***************************************************************************)
MaxAddresses == 2

AddressLists == {[k \in 1..n |-> k] : n \in 0..MaxAddresses}

UpstreamTranscripts ==
  { <<>>,
    <<PR, V4847>>,
    <<SE, <<"4", "8", ".", "5">>, COMMA, <<"2", ".", "5">>>>,
    <<SE, <<"0", ".", "0">>, COMMA, <<"2", ".", "5">>>>,
    BlockPhrase(<<<<"4", "8", ".", "5">>, <<"2", ".", "5">>>>, V4847, V1367) }

PromptOutcomes ==
  {[raised |-> FALSE, messages |-> t] : t \in UpstreamTranscripts}
  \cup {[raised |-> TRUE, messages |-> <<>>]}

QueryTables ==
  { <<>>,
    <<[country |-> Nigeria, c2024 |-> None, c2022 |-> Some(12)]>>,
    <<[country |-> Nigeria, c2024 |-> None, c2022 |-> None]>> }

NewQuery ==
  [prompt |-> "pending", extracted |-> None, geocode |-> "not called",
   save |-> "not called", calls |-> <<>>, propagated |-> FALSE,
   address |-> 0, slept |-> FALSE]

\* except Exception as e: ... return None
QueryHandler == {"Exception"}

\* Where an exception raised in the try block leads: to the return of None,
\* or out of the function.
AfterException == IF "Exception" \in QueryHandler THEN "return" ELSE "raised"

\* ShouldEnrich without the test of the coordinates.
ShouldEnrichAlways(sd) == TRUE

\* if result and result.get('latitude') and result.get('longitude'); result
\* is a non-empty dict
ShouldEnrich(sd) == Truthy(sd.latitude) /\ Truthy(sd.longitude)

\* The log entry of the running query, and the log with that entry replaced.
CurrentLog == query_log[Len(query_log)]

WithLog(e) == [query_log EXCEPT ![Len(query_log)] = e]

InitBatch ==
  /\ LoadTable(QueryTables)
  /\ addresses_list \in AddressLists
  /\ addr_i = 0
  /\ results = <<>>
  /\ detected = None
  /\ ret = None
  /\ query_log = <<>>
  /\ messages_text = <<>>
  /\ solar_data = InitialSolarData
  /\ pc = "batch"
  /\ raised = FALSE
  /\ per_field_entered = FALSE
  /\ country_name = <<>>
  /\ cost = NoLookup
  /\ report = NoReport

\* for i, address in enumerate(addresses_list): the next address, and the
\* entry of calculate_solar_potential with fresh locals
StartQuery ==
  /\ pc = "batch"
  /\ addr_i < Len(addresses_list)
  /\ addr_i' = addr_i + 1
  /\ query_log' = Append(query_log,
       [NewQuery EXCEPT !.address = addresses_list[addr_i + 1]])
  /\ messages_text' = <<>>
  /\ solar_data' = InitialSolarData
  /\ per_field_entered' = FALSE
  /\ detected' = None
  /\ ret' = None
  /\ country_name' = <<>>
  /\ cost' = NoLookup
  /\ pc' = "prompt"
  /\ UNCHANGED <<addresses_list, results, raised, table_vars>>
  /\ UNCHANGED report

\* messages = self.computer.prompt(...)
Prompt ==
  /\ pc = "prompt"
  /\ \E o \in PromptOutcomes :
       IF o.raised
       THEN /\ pc' = AfterException
            /\ query_log' = WithLog([CurrentLog EXCEPT
                 !.prompt = "raised", !.calls = Append(@, "prompt"),
                 !.propagated = (AfterException = "raised")])
            /\ UNCHANGED messages_text
       ELSE /\ pc' = "extract"
            /\ messages_text' = o.messages
            /\ query_log' = WithLog([CurrentLog EXCEPT
                 !.prompt = "returned", !.calls = Append(@, "prompt")])
  /\ UNCHANGED <<solar_data, raised, per_field_entered, country_name, cost,
                 table_vars, addresses_list, addr_i, results, detected, ret>>
  /\ UNCHANGED report

\* result = self.extract_solar_and_geo_data(messages)
CallExtract ==
  /\ pc = "extract"
  /\ \E r \in {extract_solar_and_geo_data(messages_text)} :
       /\ solar_data' = r.sd
       /\ per_field_entered' = r.per_field
       /\ raised' = r.raised
       /\ pc' = IF r.raised THEN AfterException ELSE "enrich"
       /\ query_log' = WithLog([CurrentLog EXCEPT
            !.extracted = IF r.raised THEN None ELSE Some(r.sd),
            !.propagated = (r.raised /\ AfterException = "raised")])
  /\ UNCHANGED <<messages_text, country_name, cost, table_vars,
                 addresses_list, addr_i, results, detected, ret>>
  /\ UNCHANGED report

\* The test of line 226 and its else branch.
CheckCoordinates ==
  /\ pc = "enrich"
  /\ IF ShouldEnrich(solar_data)
     THEN pc' = "geocode" /\ UNCHANGED solar_data
     ELSE /\ solar_data' = [solar_data EXCEPT
               !.country = None, !.electricity_cost_usd_kwh = None]
          /\ pc' = "save"
  /\ UNCHANGED <<messages_text, raised, per_field_entered, country_name,
                 cost, table_vars, batch_vars>>
  /\ UNCHANGED report

\* country = self.get_country_from_coordinates(...) and "if country:"
Geocode ==
  /\ pc = "geocode"
  /\ \E o \in GeocodeOutcomes :
       \E c \in {get_country_from_coordinates(o)} :
         /\ detected' = c
         /\ query_log' = WithLog([CurrentLog EXCEPT
              !.geocode = GeocodeKind(o), !.calls = Append(@, "geocode")])
         /\ IF StrTruthy(c)
            THEN /\ solar_data' = [solar_data EXCEPT !.country = c]
                 /\ pc' = "cost"
            ELSE /\ solar_data' = [solar_data EXCEPT
                      !.country = None, !.electricity_cost_usd_kwh = None]
                 /\ pc' = "save"
  /\ UNCHANGED <<messages_text, raised, per_field_entered, country_name,
                 cost, table_vars, addresses_list, addr_i, results, ret>>
  /\ UNCHANGED report

\* result['electricity_cost_usd_kwh'] = self.get_electricity_cost(country)
CostLookup ==
  /\ pc = "cost"
  /\ CallLookup(detected[1])
  /\ solar_data' = [solar_data EXCEPT !.electricity_cost_usd_kwh = cost'.cost]
  /\ query_log' = WithLog([CurrentLog EXCEPT !.calls = Append(@, "cost")])
  /\ pc' = "save"
  /\ UNCHANGED <<messages_text, raised, per_field_entered, addresses_list,
                 addr_i, results, detected, ret>>
  /\ UNCHANGED report

\* if save_report: self.save_results(...); return result.  Writing the file
\* succeeds or raises.
Save ==
  /\ pc = "save"
  /\ \E ok \in BOOLEAN :
       IF ok
       THEN /\ ret' = Some(solar_data)
            /\ pc' = "return"
            /\ query_log' = WithLog([CurrentLog EXCEPT
                 !.save = "saved", !.calls = Append(@, "save")])
       ELSE /\ ret' = None
            /\ pc' = AfterException
            /\ query_log' = WithLog([CurrentLog EXCEPT
                 !.save = "raised", !.calls = Append(@, "save"),
                 !.propagated = (AfterException = "raised")])
  /\ UNCHANGED <<messages_text, solar_data, raised, per_field_entered,
                 country_name, cost, table_vars, addresses_list, addr_i,
                 results, detected>>
  /\ UNCHANGED report

\* AppendResult going to the pause after the last address too.
AppendResultThenPause ==
  /\ pc = "return"
  /\ results' = Append(results,
                       [address |-> addresses_list[addr_i], data |-> ret])
  /\ pc' = "sleep"
  /\ UNCHANGED <<messages_text, solar_data, raised, per_field_entered,
                 country_name, cost, table_vars, addresses_list, addr_i,
                 detected, ret, query_log>>
  /\ UNCHANGED report

\* results.append({"address": address, "data": result}) and the test
\* "if i < len(addresses_list) - 1"
AppendResult ==
  /\ pc = "return"
  /\ results' = Append(results,
                       [address |-> addresses_list[addr_i], data |-> ret])
  /\ pc' = IF addr_i < Len(addresses_list) THEN "sleep" ELSE "batch"
  /\ UNCHANGED <<messages_text, solar_data, raised, per_field_entered,
                 country_name, cost, table_vars, addresses_list, addr_i,
                 detected, ret, query_log>>
  /\ UNCHANGED report

\* time.sleep(30)
Sleep ==
  /\ pc = "sleep"
  /\ query_log' = WithLog([CurrentLog EXCEPT !.slept = TRUE])
  /\ pc' = "batch"
  /\ UNCHANGED <<messages_text, solar_data, raised, per_field_entered,
                 country_name, cost, table_vars, addresses_list, addr_i,
                 results, detected, ret>>
  /\ UNCHANGED report

\* return results
BatchReturn ==
  /\ pc = "batch"
  /\ addr_i = Len(addresses_list)
  /\ pc' = "done"
  /\ UNCHANGED <<messages_text, solar_data, raised, per_field_entered,
                 country_name, cost, table_vars, batch_vars>>
  /\ UNCHANGED report

NextBatch ==
  \/ StartQuery
  \/ Prompt
  \/ CallExtract
  \/ CheckCoordinates
  \/ Geocode
  \/ CostLookup
  \/ Save
  \/ AppendResult
  \/ Sleep
  \/ BatchReturn

SpecBatch == InitBatch /\ [][NextBatch]_vars

(***************************************************************************)
(* generate_enhanced_report                                                *)
(*                                                                         *)
(* The argument is what calculate_solar_potential returned: None or a      *)
(* record.  A production is in tenths of a kWh and an electricity cost in  *)
(* hundredths of a USD per kWh, so production * electricity_cost is the    *)
(* product of the two numbers divided by 1000; int() cuts the fraction.    *)
(* Of the report the model keeps which text was produced (kind), the       *)
(* savings and the payback period (None when the text has 'N/A' or no      *)
(* payback line) and the data named as missing.                            *)
(***************************************************************************)
\* system_cost_usd = 5000 * 3
system_cost_usd == 5000 * 3

\* int(production * electricity_cost)
SavingsPerYear(production, electricity_cost) ==
  (production * electricity_cost) \div 1000

\* int(system_cost_usd / savings_per_year_usd) if savings_per_year_usd > 0
\* else 'N/A'
PaybackYears(savings_per_year_usd) ==
  IF savings_per_year_usd > 0
  THEN Some(system_cost_usd \div savings_per_year_usd)
  ELSE None

generate_enhanced_report(data) ==
  IF data = None
  THEN [NoReport EXCEPT !.kind = "unable to calculate"]
  ELSE IF data[1].status = "failed"
  THEN [NoReport EXCEPT !.kind = "no data"]
  ELSE IF Truthy(data[1].annual_production_kwh)
          /\ Truthy(data[1].electricity_cost_usd_kwh)
  THEN TheOne({
         [kind |-> "economic analysis",
          savings_per_year_usd |-> Some(sv),
          payback_years |-> PaybackYears(sv),
          missing_data |-> {}]
         : sv \in {SavingsPerYear(data[1].annual_production_kwh[1],
                                  data[1].electricity_cost_usd_kwh[1])}})
  ELSE [NoReport EXCEPT
          !.kind = "cannot calculate",
          !.missing_data =
             (IF Truthy(data[1].annual_production_kwh) THEN {}
              ELSE {"production data"})
             \cup (IF Truthy(data[1].electricity_cost_usd_kwh) THEN {}
                   ELSE {"electricity cost"})]

(***************************************************************************)
(* Records a query can return: the four extracted fields with the status   *)
(* found_items gives them, a country only with truthy coordinates, a cost  *)
(* only with a country.                                                    *)
(***************************************************************************)
ReportCoords ==
  {<<None, None>>, <<Some(485), Some(25)>>, <<Some(0), Some(0)>>}

ReportProductions == {None, Some(45), Some(99), Some(16969), Some(48470)}

ReportIrradiations == {None, Some(13670)}

ReportCosts == {None, Some(0), Some(12), Some(15)}

ExtractedRecords ==
  {SetStatus([InitialSolarData EXCEPT
                !.latitude = c[1], !.longitude = c[2],
                !.annual_production_kwh = p, !.irradiation_kwh_m2 = r]) :
     c \in ReportCoords, p \in ReportProductions, r \in ReportIrradiations}

ReturnedRecords ==
  ExtractedRecords
  \cup {[e EXCEPT !.country = Some(Nigeria), !.electricity_cost_usd_kwh = k] :
          e \in {x \in ExtractedRecords : ShouldEnrich(x)}, k \in ReportCosts}

ReturnValues == {None} \cup {Some(e) : e \in ReturnedRecords}

InitReport ==
  /\ ret \in ReturnValues
  /\ report = NoReport
  /\ pc = "ready"
  /\ addresses_list = <<>>
  /\ addr_i = 0
  /\ results = <<>>
  /\ detected = None
  /\ query_log = <<>>
  /\ messages_text = <<>>
  /\ solar_data = InitialSolarData
  /\ raised = FALSE
  /\ per_field_entered = FALSE
  /\ country_name = <<>>
  /\ cost = NoLookup
  /\ electricity_costs = <<>>
  /\ load_error = "none"
  /\ loaded_costs = <<>>
  /\ first_lookup = NoFirstLookup

\* report = solar_agent.generate_enhanced_report(address, solar_data)
Report ==
  /\ pc = "ready"
  /\ \E r \in {generate_enhanced_report(ret)} : report' = r
  /\ pc' = "reported"
  /\ UNCHANGED <<messages_text, solar_data, raised, per_field_entered,
                 country_name, cost, table_vars, batch_vars>>

NextReport == Report

SpecReport == InitReport /\ [][NextReport]_vars

(***************************************************************************)
(* Properties of extract_solar_and_geo_data (SpecExtract)                  *)
(***************************************************************************)
Present(x) == x # None

NonAbsentCount(sd) ==
  (IF Present(sd.latitude) THEN 1 ELSE 0)
  + (IF Present(sd.longitude) THEN 1 ELSE 0)
  + (IF Present(sd.annual_production_kwh) THEN 1 ELSE 0)
  + (IF Present(sd.irradiation_kwh_m2) THEN 1 ELSE 0)

\* C1: the status of the returned record is completed, partial or failed and
\* is fixed by the number n of non-absent core fields (a field holding 0 is
\* present): n = 4 completed, 1 <= n <= 3 partial, n = 0 failed.
C1_StatusFromNonAbsentCount ==
  pc = "returned" =>
    LET n == NonAbsentCount(solar_data)
    IN /\ solar_data.status \in {"completed", "partial", "failed"}
       /\ (n = 4 => solar_data.status = "completed")
       /\ (n \in 1..3 => solar_data.status = "partial")
       /\ (n = 0 => solar_data.status = "failed")

\* C2: in every returned record a present latitude lies in [-90, 90], a
\* present longitude in [-180, 180], and a present production or irradiation
\* is greater than 0, whichever tier produced the value.
C2_FieldsWithinBounds ==
  pc = "returned" =>
    /\ Present(solar_data.latitude) =>
         /\ solar_data.latitude[1] >= 0 - 10 * LatMax
         /\ solar_data.latitude[1] <= 10 * LatMax
    /\ Present(solar_data.longitude) =>
         /\ solar_data.longitude[1] >= 0 - 10 * LonMax
         /\ solar_data.longitude[1] <= 10 * LonMax
    /\ Present(solar_data.annual_production_kwh) =>
         solar_data.annual_production_kwh[1] > 0
    /\ Present(solar_data.irradiation_kwh_m2) =>
         solar_data.irradiation_kwh_m2[1] > 0

\* A record of the per-field tier whose transcript held an out-of-range
\* longitude (200) and which has all four fields.
C2_Witness ==
  /\ pc = "returned"
  /\ per_field_entered
  /\ NonAbsentCount(solar_data) = 4
  /\ \E j \in 1..Len(messages_text) : messages_text[j] = <<"2", "0", "0">>

\* The number a numeric token denotes, in tenths, when float() accepts it.
InRangeLat(t) ==
  /\ ParseFloat(t) # None
  /\ ParseFloat(t)[1] >= 0 - 10 * LatMax /\ ParseFloat(t)[1] <= 10 * LatMax

InRangeLon(t) ==
  /\ ParseFloat(t) # None
  /\ ParseFloat(t)[1] >= 0 - 10 * LonMax /\ ParseFloat(t)[1] <= 10 * LonMax

InRangePositive(t) == ParseFloat(t) # None /\ ParseFloat(t)[1] > 0

NoBlockMarker(text) == \A i \in 1..Len(text) : text[i] # ED

\* C3: a transcript that ends with a canonical terminal block of four
\* in-range values (and holds no other block) is answered by the block stage
\* alone: status completed, the block's four values, per-field tier not
\* entered.
C3_ValidBlockShortCircuits ==
  pc = "returned" =>
    \A c \in BlockPairs, p \in {V4847, VZero} :
      LET b == BlockPhrase(c, p, V1367)
          L == Len(messages_text)
      IN ( /\ L >= Len(b)
           /\ SubSeq(messages_text, L - Len(b) + 1, L) = b
           /\ NoBlockMarker(SubSeq(messages_text, 1, L - Len(b)))
           /\ InRangeLat(c[1]) /\ InRangeLon(c[2])
           /\ InRangePositive(p) /\ InRangePositive(V1367) )
         => /\ ~per_field_entered
            /\ solar_data.status = "completed"
            /\ solar_data.latitude = ParseFloat(c[1])
            /\ solar_data.longitude = ParseFloat(c[2])
            /\ solar_data.annual_production_kwh = ParseFloat(p)
            /\ solar_data.irradiation_kwh_m2 = ParseFloat(V1367)

\* Mentions of a field whose value float() accepts but the bound rejects.
OutOfRangeCoordPhrases ==
  {ph \in Phrases :
     \/ /\ Len(ph) = 4 /\ ph[1] \in {SE, CO, LA}
        /\ ParseFloat(ph[2]) # None /\ ~InRangeLat(ph[2])
     \/ /\ Len(ph) = 3 /\ ph[2] = COMMA
        /\ ParseFloat(ph[1]) # None /\ ~InRangeLat(ph[1])}

OutOfRangeProductionPhrases ==
  {ph \in Phrases :
     \/ /\ Len(ph) \in {2, 3} /\ ph[1] \in {YP, PB, EP, PR}
        /\ ParseFloat(ph[2]) # None /\ ~InRangePositive(ph[2])
     \/ /\ Len(ph) = 2 /\ ph[2] = KW
        /\ ParseFloat(ph[1]) # None /\ ~InRangePositive(ph[1])}

TranscriptsOf(phrases) ==
  {Flatten(ps) : ps \in UNION {[1..n -> phrases] : n \in 1..MaxPhrases}}

\* C4: when every mention of a field in the transcript carries a number
\* outside the field's bound (latitude 200.5 or 95, production -5 or 0), the
\* field is absent in the returned record: no part of such a number is
\* stored.
C4_OutOfRangeValueAbsent ==
  pc = "returned" =>
    /\ messages_text \in TranscriptsOf(OutOfRangeCoordPhrases)
         => solar_data.latitude = None
    /\ messages_text \in TranscriptsOf(OutOfRangeProductionPhrases)
         => solar_data.annual_production_kwh = None

\* A label-anchored mention with an in-range value.
LabelledCoordMention(text) ==
  \E j \in 1..Len(text) :
    \/ /\ CoordShapeAt(text, j, {SE, CO})
       /\ InRangeLat(text[j + 1]) /\ InRangeLon(text[j + 3])
    \/ /\ j + 3 <= Len(text) /\ text[j] = LA /\ text[j + 2] = LO
       /\ InRangeLat(text[j + 1]) /\ InRangeLon(text[j + 3])

LabelledValueMention(text, labels) ==
  \E j \in 1..Len(text) - 1 :
    text[j] \in labels /\ IsDec(text[j + 1]) /\ InRangePositive(text[j + 1])

GoodStatus == solar_data.status \in {"partial", "completed"}

\* C5: for a transcript without the terminal block, a field that has a
\* label-anchored mention with an in-range value is present in the returned
\* record and the status is partial or completed, never failed.
C5_LabelledMentionRecovered ==
  (pc = "returned" /\ NoBlockMarker(messages_text)) =>
    /\ LabelledCoordMention(messages_text) =>
         /\ Present(solar_data.latitude) /\ Present(solar_data.longitude)
         /\ GoodStatus
    /\ LabelledValueMention(messages_text, {YP, PB, EP, PR}) =>
         Present(solar_data.annual_production_kwh) /\ GoodStatus
    /\ LabelledValueMention(messages_text, {YI, IB, IP, IR}) =>
         Present(solar_data.irradiation_kwh_m2) /\ GoodStatus

\* Coordinate mentions, labelled or in a terminal block, whose captured
\* latitude float() rejects.
UnparsableCoordPhrases ==
  {ph \in Phrases :
     \/ Len(ph) = 4 /\ ph[1] \in {SE, CO, LA} /\ ParseFloat(ph[2]) = None
     \/ Len(ph) > 4 /\ ph[1] = ED /\ ParseFloat(ph[3]) = None}

\* C6: the function never raises, and when every coordinate mention of the
\* transcript (in the terminal block or after a label) holds a captured
\* latitude that cannot be parsed as a number, the latitude is absent and
\* the status is not completed.
C6_UnparsableNeverRaisesFieldAbsent ==
  /\ pc # "raised"
  /\ (pc = "returned" /\ messages_text \in TranscriptsOf(UnparsableCoordPhrases))
       => solar_data.latitude = None /\ solar_data.status # "completed"

\* The part of C6 that holds of the code: no exception leaves the function.
ExtractNeverRaises == pc # "raised" /\ ~raised

\* The patterns of a field, in list order, that have a candidate the
\* validator accepts.
CoordPatternsWithValid(text) ==
  {n \in 1..NumCoordPatterns : FirstValidPair(coord_patterns(text, n)) # 0}

ProductionPatternsWithValid(text) ==
  {n \in 1..NumValuePatterns : FirstValidValue(production_patterns(text, n)) # 0}

IrradiationPatternsWithValid(text) ==
  {n \in 1..NumValuePatterns : FirstValidValue(irradiation_patterns(text, n)) # 0}

\* C17: when the per-field tier runs, a field for which some pattern has an
\* accepted candidate holds the first accepted candidate of the earliest
\* such pattern: no later pattern replaces it, a latitude of 0.0 included.
C17_FirstPatternFirstValidMatch ==
  (pc = "returned" /\ per_field_entered) =>
    /\ CoordPatternsWithValid(messages_text) # {} =>
         LET ms == coord_patterns(messages_text,
                                  Min(CoordPatternsWithValid(messages_text)))
             k == FirstValidPair(ms)
         IN /\ solar_data.latitude = ParseFloat(ms[k][1])
            /\ solar_data.longitude = ParseFloat(ms[k][2])
    /\ ProductionPatternsWithValid(messages_text) # {} =>
         LET ms == production_patterns(messages_text,
                     Min(ProductionPatternsWithValid(messages_text)))
         IN solar_data.annual_production_kwh = ParseFloat(ms[FirstValidValue(ms)])
    /\ IrradiationPatternsWithValid(messages_text) # {} =>
         LET ms == irradiation_patterns(messages_text,
                     Min(IrradiationPatternsWithValid(messages_text)))
         IN solar_data.irradiation_kwh_m2 = ParseFloat(ms[FirstValidValue(ms)])

\* The record as the block stage leaves it.
AfterBlock(text) == BlockStage(InitialSolarData, text).sd

\* C18: when the block matched and the per-field tier ran, every field the
\* block stage set keeps the block's value in the returned record.
C18_BlockValuesKept ==
  (pc = "returned" /\ per_field_entered
     /\ formatted_match(messages_text) # None) =>
    LET b == AfterBlock(messages_text)
    IN /\ Present(b.latitude) => solar_data.latitude = b.latitude
       /\ Present(b.longitude) => solar_data.longitude = b.longitude
       /\ Present(b.annual_production_kwh) =>
            solar_data.annual_production_kwh = b.annual_production_kwh
       /\ Present(b.irradiation_kwh_m2) =>
            solar_data.irradiation_kwh_m2 = b.irradiation_kwh_m2

\* C19: when the block matches and its four values parse, the block stage
\* sets every value that passes its own bound, whatever the other three do
\* (latitude 95 with longitude 10 leaves longitude 10 set; production 0
\* leaves the coordinates and the irradiation set).
C19_BlockValuesValidatedIndividually ==
  (pc = "returned" /\ formatted_match(messages_text) # None) =>
    LET m == formatted_match(messages_text)
        b == AfterBlock(messages_text)
    IN (\A g \in 1..4 : ParseFloat(m[g]) # None) =>
         /\ InRangeLat(m[1]) => b.latitude = ParseFloat(m[1])
         /\ InRangeLon(m[2]) => b.longitude = ParseFloat(m[2])
         /\ InRangePositive(m[3]) => b.annual_production_kwh = ParseFloat(m[3])
         /\ InRangePositive(m[4]) => b.irradiation_kwh_m2 = ParseFloat(m[4])

\* The pairs of captured groups of all the coordinate matches of the text:
\* the block's, and those of each per-field pattern.
CoordCaptures(text) ==
  (IF formatted_match(text) = None THEN {}
   ELSE {<<formatted_match(text)[1], formatted_match(text)[2]>>})
  \cup UNION {{coord_patterns(text, n)[k] :
                 k \in 1..Len(coord_patterns(text, n))} :
              n \in 1..NumCoordPatterns}

\* C20: in every returned record latitude and longitude are both present or
\* both absent, and when present they are the two groups of one match.
C20_CoordinatesPaired ==
  pc = "returned" =>
    /\ Present(solar_data.latitude) <=> Present(solar_data.longitude)
    /\ Present(solar_data.latitude) =>
         \E c \in CoordCaptures(messages_text) :
           /\ solar_data.latitude = ParseFloat(c[1])
           /\ solar_data.longitude = ParseFloat(c[2])

\* A record with coordinates from a transcript with two coordinate mentions
\* that differ in both numbers, one of them out of range.
C20_Witness ==
  /\ pc = "returned"
  /\ Present(solar_data.latitude)
  /\ \E c, d \in CoordCaptures(messages_text) :
       /\ c[1] # d[1] /\ c[2] # d[2]
       /\ ~InRangeLat(d[1])
       /\ solar_data.latitude = ParseFloat(c[1])

(***************************************************************************)
(* Properties of get_electricity_cost (SpecCost)                           *)
(***************************************************************************)
ExactEntries ==
  {i \in 1..Len(electricity_costs) :
     Lower(electricity_costs[i].country) = Lower(country_name)}

SubstringEntries ==
  {i \in 1..Len(electricity_costs) :
     \/ IsSubstring(Lower(country_name), Lower(electricity_costs[i].country))
     \/ IsSubstring(Lower(electricity_costs[i].country), Lower(country_name))}

NoFigure(i) ==
  electricity_costs[i].c2024 = None /\ electricity_costs[i].c2022 = None

\* The entry the two-phase match selects: the first exact match, or else the
\* first substring hit; 0 when there is none.
MatchedEntry ==
  IF ExactEntries # {} THEN Min(ExactEntries)
  ELSE IF SubstringEntries # {} THEN Min(SubstringEntries)
  ELSE 0

\* C7: when an entry equals the query case-insensitively the result comes
\* from an exact-match entry, wherever substring-related entries sit; only
\* when there is no exact match does it come from the first entry, in table
\* order, that is a substring of the query or contains it.
C7_TwoPhaseMatch ==
  pc = "returned" =>
    /\ ExactEntries # {} =>
         \/ cost.entry \in ExactEntries
         \/ cost.entry = 0 /\ \E i \in ExactEntries : NoFigure(i)
    /\ (ExactEntries = {} /\ SubstringEntries # {}) =>
         \/ cost.entry = Min(SubstringEntries)
         \/ cost.entry = 0 /\ NoFigure(Min(SubstringEntries))

\* C8: for the matched entry the returned cost is the 2024 figure whenever
\* it is present (also when a 2022 figure is present, also when it is 0),
\* otherwise the 2022 figure when that is present.
C8_NewestFigurePreferred ==
  (pc = "returned" /\ MatchedEntry # 0) =>
    LET e == electricity_costs[MatchedEntry]
    IN /\ e.c2024 # None => cost.cost = e.c2024 /\ cost.entry = MatchedEntry
       /\ (e.c2024 = None /\ e.c2022 # None) =>
            cost.cost = e.c2022 /\ cost.entry = MatchedEntry

\* A lookup answered from an entry with a 2024 figure of 0 and a 2022 figure.
C8_Witness ==
  /\ pc = "returned"
  /\ MatchedEntry # 0
  /\ electricity_costs[MatchedEntry].c2024 = Some(0)
  /\ electricity_costs[MatchedEntry].c2022 = Some(12)
  /\ cost.cost = Some(0)

\* C9: when the matched entry (the exact match, or else the first substring
\* hit) has neither a 2024 nor a 2022 figure, the lookup returns absent.
C9_NoFigureReturnsAbsent ==
  (pc = "returned" /\ MatchedEntry # 0 /\ NoFigure(MatchedEntry)) =>
    cost.cost = None

EntriesNamed(name) ==
  {i \in 1..Len(electricity_costs) :
     electricity_costs[i].country = name /\ ~NoFigure(i)}

\* C10: with no exact match, the query "USA" is answered from a table entry
\* "United States of America" and the query "Senegal" from a table entry
\* "Sénégal".
C10_FuzzyResolvesNameVariants ==
  (pc = "returned" /\ ExactEntries = {}) =>
    /\ (country_name = USA /\ EntriesNamed(UnitedStatesOfAmerica) # {}) =>
         cost.entry \in EntriesNamed(UnitedStatesOfAmerica)
    /\ (country_name = Senegal /\ EntriesNamed(SenegalAccented) # {}) =>
         cost.entry \in EntriesNamed(SenegalAccented)

\* C11: after any sequence of lookups the cost table equals the table loaded
\* at start-up, and a call with the country name of the first call returns
\* what the first call returned, whatever calls were made in between.
C11_LookupIdempotentTableUnchanged ==
  /\ electricity_costs = loaded_costs
  /\ (pc = "returned" /\ first_lookup.made
        /\ country_name = first_lookup.country)
       => cost.cost = first_lookup.result.cost

\* A repeated call with the name of the first call, answered with a cost.
C11_Witness ==
  /\ pc = "returned"
  /\ first_lookup.again
  /\ country_name = first_lookup.country
  /\ cost.cost # None

(***************************************************************************)
(* Properties of calculate_solar_potential and batch_calculate (SpecBatch) *)
(***************************************************************************)
\* The queries that have returned to batch_calculate: results[k] is the
\* result of the query logged in query_log[k].
Finished == 1..Len(results)

Called(q, name) == \E n \in 1..Len(q.calls) : q.calls[n] = name

TimesCalled(q, name) == Cardinality({n \in 1..Len(q.calls) : q.calls[n] = name})

\* C12: when loading the cost dataset fails (missing file or any other
\* error) the table is empty, every lookup made returns absent, and a query
\* whose report is saved still returns its record, with the country the
\* geocoder gave and an absent electricity cost.
C12_LoadFailureLeavesCostAbsent ==
  load_error # "none" =>
    /\ electricity_costs = <<>>
    /\ cost.cost = None
    /\ pc # "raised"
    /\ \A k \in Finished :
         query_log[k].save = "saved" =>
           /\ results[k].data # None
           /\ results[k].data[1].electricity_cost_usd_kwh = None
           /\ query_log[k].geocode = "country" =>
                results[k].data[1].country # None

\* After a failed load, a query that looked a country up returned its record.
C12_Witness ==
  /\ load_error = "Exception"
  /\ \E k \in Finished :
       /\ Called(query_log[k], "cost")
       /\ results[k].data # None
       /\ results[k].data[1].country = Some(Nigeria)
       /\ results[k].data[1].status = "completed"

\* C13: in every record returned, the country is present only if latitude
\* and longitude are present and the geocoder returned a non-empty country,
\* and the electricity cost is present only if the country is; the geocoder
\* and the cost lookup are not called in a query whose extracted record
\* lacks a coordinate.
C13_EnrichmentOnlyWithCoordinates ==
  /\ \A k \in Finished :
       results[k].data # None =>
         LET rec == results[k].data[1]
         IN /\ rec.country # None =>
                 /\ Present(rec.latitude) /\ Present(rec.longitude)
                 /\ query_log[k].geocode = "country"
            /\ rec.electricity_cost_usd_kwh # None => rec.country # None
  /\ \A k \in 1..Len(query_log) :
       (Called(query_log[k], "geocode") \/ Called(query_log[k], "cost")) =>
         /\ query_log[k].extracted # None
         /\ Present(query_log[k].extracted[1].latitude)
         /\ Present(query_log[k].extracted[1].longitude)

\* A returned record with a country and a cost, and another query of the
\* batch whose record has no coordinates and no country.
C13_Witness ==
  /\ \E k \in Finished :
       /\ results[k].data # None
       /\ results[k].data[1].country = Some(Nigeria)
       /\ results[k].data[1].electricity_cost_usd_kwh = Some(12)
  /\ \E k \in Finished :
       /\ results[k].data # None
       /\ results[k].data[1].latitude = None
       /\ results[k].data[1].country = None

\* C14: a query whose extracted record has latitude and longitude present
\* (0.0 included) calls the geocoder exactly once, and before any cost
\* lookup.
C14_GeocodeOnceWhenCoordinatesPresent ==
  \A k \in Finished :
    LET q == query_log[k]
    IN ( /\ q.extracted # None
         /\ Present(q.extracted[1].latitude)
         /\ Present(q.extracted[1].longitude) )
       => /\ TimesCalled(q, "geocode") = 1
          /\ \A n \in 1..Len(q.calls) :
               q.calls[n] = "cost" =>
                 \E m \in 1..n - 1 : q.calls[m] = "geocode"

\* The five fields extract_solar_and_geo_data fills.
CoreFields(rec) ==
  <<rec.latitude, rec.longitude, rec.annual_production_kwh,
    rec.irradiation_kwh_m2, rec.status>>

\* C15: after a geocoding failure (non-200 response, exception, body without
\* a country) get_country_from_coordinates gives no country and nothing is
\* raised; the query, when its report is saved, returns the record with
\* country and electricity cost absent and the other fields as extracted.
C15_GeocodeFailureAbsorbed ==
  /\ \A k \in 1..Len(query_log) :
       query_log[k].geocode \in {"status", "exception", "no country"} =>
         /\ ~query_log[k].propagated
         /\ ~Called(query_log[k], "cost")
         /\ (k = Len(query_log) /\ pc = "save") => ~StrTruthy(detected)
  /\ \A k \in Finished :
       ( /\ query_log[k].geocode \in {"status", "exception", "no country"}
         /\ query_log[k].save = "saved" )
       => /\ results[k].data # None
          /\ results[k].data[1].country = None
          /\ results[k].data[1].electricity_cost_usd_kwh = None
          /\ CoreFields(results[k].data[1])
               = CoreFields(query_log[k].extracted[1])

\* A completed record returned after the geocoder raised.
C15_Witness ==
  \E k \in Finished :
    /\ query_log[k].geocode = "exception"
    /\ results[k].data # None
    /\ results[k].data[1].status = "completed"
    /\ results[k].data[1].country = None

\* C16: an exception of the upstream generator reaches the caller of
\* calculate_solar_potential as an exception of that query, and the batch
\* still gives every address, in order, its own result.
C16_UpstreamFailurePropagates ==
  /\ \A k \in 1..Len(query_log) :
       query_log[k].prompt = "raised" => query_log[k].propagated
  /\ pc = "done" =>
       /\ Len(results) = Len(addresses_list)
       /\ \A k \in Finished :
            /\ results[k].address = addresses_list[k]
            /\ query_log[k].prompt # "pending"

\* The part of C16 that holds of the code: the batch is never cut short, and
\* a query after a failed one is processed like any other.
BatchNeverBlocked ==
  /\ pc # "raised"
  /\ pc = "done" =>
       /\ Len(results) = Len(addresses_list)
       /\ \A k \in Finished :
            /\ results[k].address = addresses_list[k]
            /\ query_log[k].prompt # "pending"
            /\ query_log[k].prompt = "raised" => results[k].data = None

\* C21: the generator is called for the addresses one at a time, in input
\* order; a query starts only when the one before it has returned its
\* result and the pause after it is over; the pause follows every query but
\* the last; the list returned has one entry for each address, in order.
C21_BatchSerialized ==
  /\ Len(query_log) <= Len(results) + 1
  /\ Len(query_log) <= Len(addresses_list)
  /\ \A k \in 1..Len(query_log) :
       /\ query_log[k].address = addresses_list[k]
       /\ TimesCalled(query_log[k], "prompt") <= 1
       /\ k > 1 => query_log[k - 1].slept
       /\ k = Len(addresses_list) => ~query_log[k].slept
  /\ \A k \in Finished : results[k].address = addresses_list[k]
  /\ pc = "done" =>
       /\ Len(results) = Len(addresses_list)
       /\ \A k \in Finished :
            /\ TimesCalled(query_log[k], "prompt") = 1
            /\ query_log[k].slept <=> k < Len(addresses_list)

\* A finished batch of two or more addresses, the first of which failed
\* upstream.
C21_Witness ==
  /\ pc = "done"
  /\ Len(addresses_list) >= 2
  /\ query_log[1].prompt = "raised"
  /\ query_log[1].slept
  /\ results[2].data # None

(***************************************************************************)
(* Properties of generate_enhanced_report (SpecReport)                     *)
(***************************************************************************)
\* production and cost are both present and their product is not 0
SavingsNotZero(data) ==
  /\ data # None
  /\ Present(data[1].annual_production_kwh)
  /\ Present(data[1].electricity_cost_usd_kwh)
  /\ data[1].annual_production_kwh[1] * data[1].electricity_cost_usd_kwh[1] # 0

\* C22: the report gives a numeric payback period exactly when production
\* and cost are both present and production * cost is not 0 (a positive
\* saving below 1 USD included); in every other case, and in no case but
\* those, it gives none.
C22_PaybackExactlyWhenSavingsNotZero ==
  pc = "reported" =>
    (report.payback_years # None <=> SavingsNotZero(ret))

\* The part of C22 that holds of the code: without production or cost, or
\* with a cost of 0, no payback period is given, and a period given is the
\* whole part of the system cost over the whole part of the saving.
PaybackOnlyWhenSavingsNotZero ==
  pc = "reported" =>
    /\ report.payback_years # None => SavingsNotZero(ret)
    /\ report.payback_years # None =>
         report.payback_years[1]
           = system_cost_usd \div report.savings_per_year_usd[1]

====
